---------------------------- MODULE Spec2Model ----------------------------
(***************************************************************************)
(* Model of the GPX engine of adv-moto-web (services/gpxParser.ts):        *)
(* GPXParser.parse, calculateStats, calculateDistance, toGeoJSONCoordinates,*)
(* getElevationData, generateGPX and escapeXml; of the services around it, *)
(* DataService (initialize, the writing operations and the offline queue)  *)
(* and LocalStorage (routes, reviews, favorites); and of parseGPX of the   *)
(* cloud function route-create.                                            *)
(*                                                                         *)
(* Representation.                                                         *)
(*  - A string is a tuple of one-character strings; null / undefined for   *)
(*    an optional string is the record Null, a present string t is Str(t). *)
(*  - A JavaScript number is a record [k, v]: k = "num" with v the value   *)
(*    in fixed point with 5 decimals (v = value * 10^5), k = "nan" for NaN *)
(*    and k = "undef" for undefined.  Elevations used as inputs are        *)
(*    multiples of 0.5, which binary floating point adds exactly.          *)
(*  - A document (the text given to DOMParser) is a record of its markup:  *)
(*    whether its tag structure is well-formed, the raw text of the first  *)
(*    name element, and its elements in document order, each with its tag, *)
(*    its raw lat / lon attribute text and the raw text of its ele and     *)
(*    time children.                                                       *)
(***************************************************************************)
EXTENDS Integers, Sequences, FiniteSets, TLC

\* The caller of the GPX engine.
VARIABLES suite, doc, result, prev, op, out

\* The application around it: the browser (env, localStorage), the backend, the
\* static fields of DataService (ds), the running DataService.initialize calls
\* (pc), the registered online / offline listener pairs, the last finished call
\* with its result, and the record of every action ever put on the offline queue.
VARIABLES env, localStorage, backend, ds, pc, listeners, call, everQueued

parserVars == <<suite, doc, result, prev, op, out>>

appVars == <<env, localStorage, backend, ds, pc, listeners, call, everQueued>>

vars == <<suite, doc, result, prev, op, out,
          env, localStorage, backend, ds, pc, listeners, call, everQueued>>

-----------------------------------------------------------------------------
(* Strings and optional values *)

Null == [has |-> FALSE, s |-> <<>>]

Str(t) == [has |-> TRUE, s |-> t]

\* JavaScript truthiness of an optional string: null, undefined and "" are falsy.
Truthy(o) == o.has /\ Len(o.s) > 0

\* a || b on optional strings
OrElse(o, dflt) == IF Truthy(o) THEN o ELSE Str(dflt)

-----------------------------------------------------------------------------
(* JavaScript numbers *)

Scale == 10^5

Num(n) == [k |-> "num", v |-> n]

NaN == [k |-> "nan", v |-> 0]

undefined == [k |-> "undef", v |-> 0]

isNaN(x) == x.k = "nan"

\* x - y
jsSub(x, y) == IF x.k = "num" /\ y.k = "num" THEN Num(x.v - y.v) ELSE NaN

\* x + y
jsAdd(x, y) == IF x.k = "num" /\ y.k = "num" THEN Num(x.v + y.v) ELSE NaN

\* x > 0 (false for NaN)
jsPositive(x) == x.k = "num" /\ x.v > 0

\* Math.abs
jsAbs(x) == IF x.k = "num" THEN Num(IF x.v < 0 THEN -x.v ELSE x.v) ELSE NaN

\* Math.round: the nearest integer, halves rounded towards +infinity.
jsRound(x) == IF x.k = "num" THEN Num(((2 * x.v + Scale) \div (2 * Scale)) * Scale) ELSE NaN

\* x || 0 on a number or undefined: undefined, NaN and 0 are falsy.
OrZero(x) == IF x.k = "num" /\ x.v # 0 THEN x ELSE Num(0)

-----------------------------------------------------------------------------
(* parseFloat and number-to-string conversion *)

Digits == <<"0", "1", "2", "3", "4", "5", "6", "7", "8", "9">>

IsDigit(c) == \E i \in 1..10 : Digits[i] = c

DigitVal(c) == (CHOOSE i \in 1..10 : Digits[i] = c) - 1

\* The index after the run of digits of s that starts at i.
RECURSIVE DigitsEnd(_, _)
DigitsEnd(s, i) == IF i <= Len(s) /\ IsDigit(s[i]) THEN DigitsEnd(s, i + 1) ELSE i

\* The value of the digits s[i..j-1] as an integer.
RECURSIVE IntOf(_, _, _)
IntOf(s, i, j) == IF j <= i THEN 0 ELSE 10 * IntOf(s, i, j - 1) + DigitVal(s[j - 1])

\* The value of the fraction digits s[i..j-1] in units of 10^-5 (digits after
\* the fifth are below the model's resolution).
RECURSIVE FracOf(_, _, _, _)
FracOf(s, i, j, w) ==
    IF w = 0 \/ i >= j THEN 0
    ELSE DigitVal(s[i]) * w + FracOf(s, i + 1, j, w \div 10)

\* The index of the first character of s at or after i that is not white space.
RECURSIVE SkipSpace(_, _)
SkipSpace(s, i) == IF i <= Len(s) /\ s[i] = " " THEN SkipSpace(s, i + 1) ELSE i

\* parseFloat(s): leading white space is skipped, then the longest prefix that is
\* a decimal literal (sign, digits, fraction) is converted; NaN when there is none.
\* Exponents and "Infinity" are not in the input alphabet.
parseFloat(s) ==
    LET b == SkipSpace(s, 1)
        neg == b <= Len(s) /\ s[b] = "-"
        i0 == IF b <= Len(s) /\ s[b] \in {"-", "+"} THEN b + 1 ELSE b
        i1 == DigitsEnd(s, i0)
        dot == i1 <= Len(s) /\ s[i1] = "."
        f0 == IF dot THEN i1 + 1 ELSE i1
        f1 == IF dot THEN DigitsEnd(s, f0) ELSE f0
        mag == IntOf(s, i0, i1) * Scale + FracOf(s, f0, f1, Scale \div 10)
    IN  IF i1 = i0 /\ f1 = f0 THEN NaN
        ELSE Num(IF neg THEN -mag ELSE mag)

\* The decimal digits of the natural number n.
RECURSIVE NatToString(_)
NatToString(n) ==
    IF n < 10 THEN <<Digits[n + 1]>>
    ELSE Append(NatToString(n \div 10), Digits[(n % 10) + 1])

\* The w fraction digits of f (0 <= f < 10^w), trailing zeros dropped.
RECURSIVE FracToString(_, _)
FracToString(f, w) ==
    IF f = 0 \/ w = 0 THEN <<>>
    ELSE <<Digits[(f \div w) + 1]>> \o FracToString(f % w, w \div 10)

\* String(x), as a template literal `${x}` converts a number: the shortest
\* decimal that reads back as x.
NumberToString(x) ==
    IF x.k = "nan" THEN <<"N", "a", "N">>
    ELSE IF x.k = "undef" THEN <<"u", "n", "d", "e", "f", "i", "n", "e", "d">>
    ELSE LET m == IF x.v < 0 THEN -x.v ELSE x.v
             body == NatToString(m \div Scale) \o
                     (IF m % Scale = 0 THEN <<>>
                      ELSE <<".">> \o FracToString(m % Scale, Scale \div 10))
         IN  IF x.v < 0 THEN <<"-">> \o body ELSE body

-----------------------------------------------------------------------------
(* XML character data *)

XmlSpecials == {"&", "<", ">", "\"", "'"}

\* The predefined entity reference of a markup character.
Entity(c) ==
    CASE c = "&" -> <<"&", "a", "m", "p", ";">>
      [] c = "<" -> <<"&", "l", "t", ";">>
      [] c = ">" -> <<"&", "g", "t", ";">>
      [] c = "\"" -> <<"&", "q", "u", "o", "t", ";">>
      [] c = "'" -> <<"&", "a", "p", "o", "s", ";">>

HasPrefixAt(s, i, p) ==
    /\ i + Len(p) - 1 <= Len(s)
    /\ \A k \in 1..Len(p) : s[i + k - 1] = p[k]

\* The markup characters whose entity reference starts at s[i].
EntitiesAt(s, i) == {c \in XmlSpecials : HasPrefixAt(s, i, Entity(c))}

\* Whether raw text s, from index i on, is well-formed character data: no "<",
\* and every "&" starts an entity reference.
RECURSIVE WellFormedText(_, _)
WellFormedText(s, i) ==
    IF i > Len(s) THEN TRUE
    ELSE IF s[i] = "<" THEN FALSE
    ELSE IF s[i] = "&" THEN
        /\ EntitiesAt(s, i) # {}
        /\ WellFormedText(s, i + Len(Entity(CHOOSE c \in EntitiesAt(s, i) : TRUE)))
    ELSE WellFormedText(s, i + 1)

\* The text content of well-formed raw text s from index i on: entity references
\* replaced by their characters.
RECURSIVE DecodeText(_, _)
DecodeText(s, i) ==
    IF i > Len(s) THEN <<>>
    ELSE IF s[i] = "&" /\ EntitiesAt(s, i) # {} THEN
        LET c == CHOOSE c \in EntitiesAt(s, i) : TRUE
        IN  <<c>> \o DecodeText(s, i + Len(Entity(c)))
    ELSE <<s[i]>> \o DecodeText(s, i + 1)

WellFormedOpt(o) == o.has => WellFormedText(o.s, 1)

DecodeOpt(o) == IF o.has THEN Str(DecodeText(o.s, 1)) ELSE Null

-----------------------------------------------------------------------------
(* DOMParser *)

\* An element of a document: its tag, its lat and lon attributes and the text
\* of its ele, time and name children (Null when it has none).
Elem(tag, lat, lon, ele, time) ==
    [tag |-> tag, lat |-> lat, lon |-> lon, ele |-> ele, time |-> time,
     name |-> Null]

\* Element e with a name child of the given text.
Named(e, name) == [e EXCEPT !.name = name]

ParserErrorElem == Elem("parsererror", Null, Null, Null, Null)

WellFormedElem(e) ==
    /\ WellFormedOpt(e.lat) /\ ~(e.lat.has /\ \E i \in 1..Len(e.lat.s) : e.lat.s[i] = "\"")
    /\ WellFormedOpt(e.lon) /\ ~(e.lon.has /\ \E i \in 1..Len(e.lon.s) : e.lon.s[i] = "\"")
    /\ WellFormedOpt(e.ele)
    /\ WellFormedOpt(e.time)
    /\ WellFormedOpt(e.name)

\* Whether the document is well-formed XML.
WellFormed(d) ==
    /\ d.syntaxOk
    /\ WellFormedOpt(d.name)
    /\ \A i \in 1..Len(d.elems) : WellFormedElem(d.elems[i])

DecodeElem(e) ==
    Named(Elem(e.tag, DecodeOpt(e.lat), DecodeOpt(e.lon), DecodeOpt(e.ele),
               DecodeOpt(e.time)),
          DecodeOpt(e.name))

\* parser.parseFromString(gpxContent, 'text/xml'): the DOM of a well-formed
\* document; for any other input a document that holds a parsererror element.
parseFromString(d) ==
    IF WellFormed(d)
    THEN [name |-> DecodeOpt(d.name),
          elems |-> [i \in 1..Len(d.elems) |-> DecodeElem(d.elems[i])]]
    ELSE [name |-> Null, elems |-> <<ParserErrorElem>>]

\* xmlDoc.getElementsByTagName(tag): the elements with that tag, in document order.
getElementsByTagName(xmlDoc, tag) ==
    LET IsTag(e) == e.tag = tag
    IN  SelectSeq(xmlDoc.elems, IsTag)

-----------------------------------------------------------------------------
(* GPXParser.parse *)

TrackPoint(lat, lon, ele, time) == [lat |-> lat, lon |-> lon, ele |-> ele, time |-> time]

\* PointsOf reading the ele child of trkpt and rtept elements only.
PointsOf_WptNoEle(point) ==
    LET lat == parseFloat(OrElse(point.lat, <<"0">>).s)
        lon == parseFloat(OrElse(point.lon, <<"0">>).s)
    IN  IF isNaN(lat) \/ isNaN(lon) THEN <<>>
        ELSE <<TrackPoint(lat, lon,
                          IF Truthy(point.ele) /\ point.tag # "wpt"
                          THEN parseFloat(point.ele.s) ELSE undefined,
                          IF Truthy(point.time) THEN point.time ELSE Null)>>

\* The point built from one element (the body of the for loop), or <<>> when the
\* element is skipped.
PointsOf(point) ==
    LET lat == parseFloat(OrElse(point.lat, <<"0">>).s)
        lon == parseFloat(OrElse(point.lon, <<"0">>).s)
    IN  IF isNaN(lat) \/ isNaN(lon) THEN <<>>
        ELSE <<TrackPoint(lat, lon,
                          IF Truthy(point.ele) THEN parseFloat(point.ele.s) ELSE undefined,
                          IF Truthy(point.time) THEN point.time ELSE Null)>>

\* The for loop over trackPoints from index i on.
RECURSIVE ExtractPoints(_, _)
ExtractPoints(trackPoints, i) ==
    IF i > Len(trackPoints) THEN <<>>
    ELSE PointsOf(trackPoints[i]) \o ExtractPoints(trackPoints, i + 1)

\* Mutant of SelectTrackPoints: the tiers merged instead of falling back.
SelectTrackPoints_Merged(xmlDoc) ==
    getElementsByTagName(xmlDoc, "trkpt")
        \o getElementsByTagName(xmlDoc, "rtept")
        \o getElementsByTagName(xmlDoc, "wpt")

\* The three-tier fallback: trkpt, else rtept, else wpt.
SelectTrackPoints(xmlDoc) ==
    LET trkpt == getElementsByTagName(xmlDoc, "trkpt")
        rtept == getElementsByTagName(xmlDoc, "rtept")
        wpt == getElementsByTagName(xmlDoc, "wpt")
    IN  IF Len(trkpt) # 0 THEN trkpt
        ELSE IF Len(rtept) # 0 THEN rtept
        ELSE wpt

-----------------------------------------------------------------------------
(* GPXParser.calculateDistance and calculateStats *)

iabs(n) == IF n < 0 THEN -n ELSE n

\* R * c of the haversine formula (R = 6371), in units of 10^-5 km, for the
\* coordinates of the model's grid: lat in {0, 0.00223, 0.0045} and lon in
\* {0, 0.001} or in {180, 180.001} degrees.  sin^2 is even, so only |dLat| and
\* |dLon| matter, and over this grid cos(lat1) * cos(lat2) changes the result by less than 10^-9 km.  The
\* values are those of the formula in IEEE double arithmetic, rounded to 10^-5 km.
HaversineKm(dLat, dLon) ==
    CASE dLat = 0 /\ dLon = 0 -> 0
      [] dLat = 0 /\ dLon = 100 -> 11119
      [] dLat = 223 /\ dLon = 0 -> 24796
      [] dLat = 223 /\ dLon = 100 -> 27176
      [] dLat = 227 /\ dLon = 0 -> 25241
      [] dLat = 227 /\ dLon = 100 -> 27582
      [] dLat = 450 /\ dLon = 0 -> 50038
      [] dLat = 450 /\ dLon = 100 -> 51258

\* Mutant of calculateDistance: a signed distance, negative when heading south.
calculateDistance_Signed(lat1, lon1, lat2, lon2) ==
    LET dLat == jsSub(lat2, lat1)
        dLon == jsSub(lon2, lon1)
        d == HaversineKm(iabs(dLat.v), iabs(dLon.v))
    IN  Num(IF dLat.v < 0 THEN -d ELSE d)

calculateDistance(lat1, lon1, lat2, lon2) ==
    LET dLat == jsSub(lat2, lat1)
        dLon == jsSub(lon2, lon1)
    IN  Num(HaversineKm(iabs(dLat.v), iabs(dLon.v)))

\* Math.round(x * 100) / 100
Round2(x) == IF x.k = "num"
             THEN Num(((2 * x.v * 100 + Scale) \div (2 * Scale)) * (Scale \div 100))
             ELSE NaN

avgSpeed == 30

\* Math.round((totalDistance / avgSpeed) * 60)
EstimatedTime(totalDistance) ==
    IF totalDistance.k = "num"
    THEN Num(((2 * totalDistance.v * 60 + avgSpeed * Scale) \div (2 * avgSpeed * Scale)) * Scale)
    ELSE NaN

\* Mutant of StatsStep: a point without elevation resets lastEle to 0.
StatsStep_ResetOnUnknown(acc, prevPt, curr) ==
    LET total == jsAdd(acc.totalDistance,
                       calculateDistance(prevPt.lat, prevPt.lon, curr.lat, curr.lon))
        eleDiff == jsSub(curr.ele, acc.lastEle)
    IN  IF curr.ele # undefined
        THEN [totalDistance |-> total,
              elevationGain |-> IF jsPositive(eleDiff)
                                THEN jsAdd(acc.elevationGain, eleDiff)
                                ELSE acc.elevationGain,
              elevationLoss |-> IF jsPositive(eleDiff)
                                THEN acc.elevationLoss
                                ELSE jsAdd(acc.elevationLoss, jsAbs(eleDiff)),
              lastEle |-> curr.ele]
        ELSE [acc EXCEPT !.totalDistance = total, !.lastEle = Num(0)]

\* StatsStep with the descent added to elevationLoss as it is, without Math.abs.
StatsStep_SignedLoss(acc, prevPt, curr) ==
    LET total == jsAdd(acc.totalDistance,
                       calculateDistance(prevPt.lat, prevPt.lon, curr.lat, curr.lon))
        eleDiff == jsSub(curr.ele, acc.lastEle)
    IN  IF curr.ele # undefined
        THEN [totalDistance |-> total,
              elevationGain |-> IF jsPositive(eleDiff)
                                THEN jsAdd(acc.elevationGain, eleDiff)
                                ELSE acc.elevationGain,
              elevationLoss |-> IF jsPositive(eleDiff)
                                THEN acc.elevationLoss
                                ELSE jsAdd(acc.elevationLoss, eleDiff),
              lastEle |-> curr.ele]
        ELSE [acc EXCEPT !.totalDistance = total]

\* One iteration of the loop of calculateStats: acc holds totalDistance,
\* elevationGain, elevationLoss and lastEle.
StatsStep(acc, prevPt, curr) ==
    LET total == jsAdd(acc.totalDistance,
                       calculateDistance(prevPt.lat, prevPt.lon, curr.lat, curr.lon))
        eleDiff == jsSub(curr.ele, acc.lastEle)
    IN  IF curr.ele # undefined
        THEN [totalDistance |-> total,
              elevationGain |-> IF jsPositive(eleDiff)
                                THEN jsAdd(acc.elevationGain, eleDiff)
                                ELSE acc.elevationGain,
              elevationLoss |-> IF jsPositive(eleDiff)
                                THEN acc.elevationLoss
                                ELSE jsAdd(acc.elevationLoss, jsAbs(eleDiff)),
              lastEle |-> curr.ele]
        ELSE [acc EXCEPT !.totalDistance = total]

\* Mutant of FirstEle: lastEle starts at 0 whatever the first point.
FirstEle_Zero(points) == Num(0)

\* The initial value of lastEle: points[0].ele || 0
FirstEle(points) == OrZero(points[1].ele)

\* The loop of calculateStats up to index n (1-based: points[2..n]).
RECURSIVE StatsLoop(_, _)
StatsLoop(points, n) ==
    IF n <= 1
    THEN [totalDistance |-> Num(0), elevationGain |-> Num(0),
          elevationLoss |-> Num(0), lastEle |-> FirstEle(points)]
    ELSE StatsStep(StatsLoop(points, n - 1), points[n - 1], points[n])

calculateStats(points) ==
    LET acc == StatsLoop(points, Len(points))
    IN  [distance |-> Round2(acc.totalDistance),
         elevationGain |-> jsRound(acc.elevationGain),
         elevationLoss |-> jsRound(acc.elevationLoss),
         estimatedTime |-> EstimatedTime(acc.totalDistance)]

-----------------------------------------------------------------------------
(* GPXParser.parse *)

NoData == [name |-> Null, points |-> <<>>, distance |-> Num(0),
           elevationGain |-> Num(0), elevationLoss |-> Num(0),
           estimatedTime |-> Num(0)]

\* throw new Error(...): MalformedDocument is 'GPX 文件格式错误', NoTrackData is
\* 'GPX 文件中没有找到轨迹点', InsufficientPoints is 'GPX 文件中有效轨迹点少于2个'.
Throw(e) == [status |-> "error", error |-> e, data |-> NoData]

Return(d) == [status |-> "ok", error |-> "", data |-> d]

\* xmlDoc.getElementsByTagName('name'): the text of every name element, in
\* document order: the document-level name of the metadata, which precedes the
\* point elements, then the name children of the elements.
NameNodes(xmlDoc) ==
    LET HasName(e) == e.name.has
        named == SelectSeq(xmlDoc.elems, HasName)
    IN  (IF xmlDoc.name.has THEN <<xmlDoc.name>> ELSE <<>>)
            \o [i \in 1..Len(named) |-> named[i].name]

\* const nameNode = xmlDoc.getElementsByTagName('name')[0]
\* const name = nameNode?.textContent || undefined
NameOf(xmlDoc) ==
    LET nameNodes == NameNodes(xmlDoc)
    IN  IF Len(nameNodes) > 0 /\ Truthy(nameNodes[1]) THEN nameNodes[1] ELSE Null

parse(gpxContent) ==
    LET xmlDoc == parseFromString(gpxContent)
        parseError == getElementsByTagName(xmlDoc, "parsererror")
        trackPoints == SelectTrackPoints(xmlDoc)
        points == ExtractPoints(trackPoints, 1)
        stats == calculateStats(points)
    IN  IF Len(parseError) > 0 THEN Throw("MalformedDocument")
        ELSE IF Len(trackPoints) = 0 THEN Throw("NoTrackData")
        ELSE IF Len(points) < 2 THEN Throw("InsufficientPoints")
        ELSE Return([name |-> NameOf(xmlDoc), points |-> points,
                     distance |-> stats.distance,
                     elevationGain |-> stats.elevationGain,
                     elevationLoss |-> stats.elevationLoss,
                     estimatedTime |-> stats.estimatedTime])

-----------------------------------------------------------------------------
(* toGeoJSONCoordinates, getElevationData, generateGPX *)

\* toGeoJSONCoordinates with the pair in the order [lat, lon].
toGeoJSONCoordinates_LatLon(gpxData) ==
    [i \in 1..Len(gpxData.points) |-> <<gpxData.points[i].lat, gpxData.points[i].lon>>]

toGeoJSONCoordinates(gpxData) ==
    [i \in 1..Len(gpxData.points) |-> <<gpxData.points[i].lon, gpxData.points[i].lat>>]

\* getElevationData without the fallback to 0.
getElevationData_Raw(gpxData) ==
    [i \in 1..Len(gpxData.points) |-> gpxData.points[i].ele]

getElevationData(gpxData) ==
    [i \in 1..Len(gpxData.points) |-> OrZero(gpxData.points[i].ele)]

\* str.replace(/c/g, Entity(c)): every c of s from index i on replaced.
RECURSIVE ReplaceAll(_, _, _)
ReplaceAll(s, c, i) ==
    IF i > Len(s) THEN <<>>
    ELSE (IF s[i] = c THEN Entity(c) ELSE <<s[i]>>) \o ReplaceAll(s, c, i + 1)

\* escapeXml with the ampersand pass made last instead of first.
escapeXml_AmpLast(str) ==
    LET s1 == ReplaceAll(str, "<", 1)
        s2 == ReplaceAll(s1, ">", 1)
        s3 == ReplaceAll(s2, "\"", 1)
        s4 == ReplaceAll(s3, "'", 1)
    IN  ReplaceAll(s4, "&", 1)

escapeXml(str) ==
    LET s1 == ReplaceAll(str, "&", 1)
        s2 == ReplaceAll(s1, "<", 1)
        s3 == ReplaceAll(s2, ">", 1)
        s4 == ReplaceAll(s3, "\"", 1)
    IN  ReplaceAll(s4, "'", 1)

\* GenerateTrkpt with the ele child written only for a truthy elevation.
GenerateTrkpt_EleTruthy(point) ==
    Elem("trkpt",
         Str(NumberToString(point.lat)),
         Str(NumberToString(point.lon)),
         IF point.ele.k = "num" /\ point.ele.v # 0
         THEN Str(NumberToString(point.ele)) ELSE Null,
         IF Truthy(point.time) THEN point.time ELSE Null)

\* The trkpt element generateGPX writes for one point.
GenerateTrkpt(point) ==
    Elem("trkpt",
         Str(NumberToString(point.lat)),
         Str(NumberToString(point.lon)),
         IF point.ele # undefined THEN Str(NumberToString(point.ele)) ELSE Null,
         IF Truthy(point.time) THEN point.time ELSE Null)

\* s with zeros in front up to width w.
RECURSIVE PadStart(_, _)
PadStart(s, w) == IF Len(s) >= w THEN s ELSE PadStart(<<"0">> \o s, w)

\* Date.prototype.toISOString of the instant t milliseconds after the epoch, for
\* an instant of the epoch's first minute: 1970-01-01T00:00:ss.mmmZ.
toISOString(t) ==
    <<"1", "9", "7", "0", "-", "0", "1", "-", "0", "1", "T", "0", "0", ":", "0", "0", ":">>
        \o PadStart(NatToString(t \div 1000), 2) \o <<".">>
        \o PadStart(NatToString(t % 1000), 3) \o <<"Z">>

\* The document generateGPX writes: the escaped title as the name, the metadata
\* time, then one trkpt per point.  now is the instant new Date() reads from the
\* system clock during the call.
generateGPX(gpxData, title, now) ==
    [syntaxOk |-> TRUE,
     name |-> Str(escapeXml(title)),
     time |-> Str(toISOString(now)),
     elems |-> [i \in 1..Len(gpxData.points) |-> GenerateTrkpt(gpxData.points[i])]]

-----------------------------------------------------------------------------
(* Inputs *)

\* Longest element sequence of an input document, per suite of inputs.
MaxElems == 3

MaxElePoints == 4

MaxDistPoints == 3

MaxRoundTripPoints == 2

MaxNamePoints == 3

MaxRangePoints == 3

MaxServerPoints == 3

SeqsUpTo(S, n) == UNION {[1..k -> S] : k \in 0..n}

\* Attribute and child texts.
LatA == <<"0", ".", "0", "0", "2", "2", "3">>

LatB == <<"0", ".", "0", "0", "4", "5">>

LatZero == <<"0", ".", "0">>

LonA == <<"0", ".", "0", "0", "1">>

Junk == <<"a", "b", "c">>

PlainTime == <<"1", "2", ":", "0", "0", "Z">>

\* Raw text "a&amp;b", whose text content is "a&b".
AmpTime == <<"a", "&", "a", "m", "p", ";", "b">>

Tags == {"trkpt", "rtept", "wpt"}

\* Suite "parse": every tier, coordinates that are numeric, non-numeric, empty
\* or absent, and an element that is itself named parsererror.
ParseElems ==
    {Elem("trkpt", c[1], c[2], Null, Null) :
        c \in {<<Str(LatA), Str(LonA)>>, <<Str(LatB), Str(LonA)>>,
               <<Str(Junk), Str(LonA)>>, <<Null, Str(LonA)>>,
               <<Str(<<>>), Str(LonA)>>, <<Str(LatA), Str(Junk)>>}}
    \cup {Elem(t, Str(la), Str(LonA), Null, Null) :
            t \in {"rtept", "wpt"}, la \in {LatA, LatB, Junk}}
    \cup {ParserErrorElem}

\* Suite "ele": track points at one place whose ele child is absent, non-numeric
\* or a number of metres.
EleTexts ==
    {Null, Str(Junk), Str(<<"0">>), Str(<<"0", ".", "5">>), Str(<<"5", "0">>),
     Str(<<"5", "5">>), Str(<<"5", "8">>), Str(<<"6", "0">>)}

EleElems == {Elem("trkpt", Str(LatZero), Str(LonA), e, Null) : e \in EleTexts}

\* Suite "dist": track points on the grid of HaversineKm, no elevation.
DistElems ==
    {Elem("trkpt", Str(la), Str(lo), Null, Null) :
        la \in {<<"0">>, LatA, LatB}, lo \in {<<"0">>, LonA}}

\* Suite "roundtrip": points with and without ele and time children; c is the
\* pair of the ele and the time text.
RoundTripElems ==
    {Elem(t, Str(la), Str(LonA), c[1], c[2]) :
        t \in {"trkpt", "wpt"}, la \in {LatZero, LatA},
        c \in {<<Null, Null>>, <<Str(<<"0", ".", "5">>), Null>>,
               <<Str(<<"0", ".", "5">>), Str(PlainTime)>>,
               <<Str(Junk), Null>>, <<Null, Str(AmpTime)>>}}

\* Suite "name": points of every tier at one place, with and without a name
\* child.
NameElems ==
    {Named(Elem(t, Str(LatA), Str(LonA), Null, Null), n) :
        t \in Tags, n \in {Null, Str(<<"P">>)}}

Lon180 == <<"1", "8", "0">>

LonBeyond == <<"1", "8", "0", ".", "0", "0", "1">>

\* Suite "range": points on the equator at longitude 180 and just beyond it.
RangeElems ==
    {Elem(t, Str(<<"0">>), Str(lo), Null, Null) :
        t \in {"trkpt", "wpt"}, lo \in {Lon180, LonBeyond}}

\* Suite "server": track points at two places whose ele child is absent,
\* non-numeric or a number of metres.
ServerElems ==
    {Elem("trkpt", Str(la), Str(LonA), e, Null) :
        la \in {LatZero, LatA},
        e \in {Null, Str(Junk), Str(<<"0">>), Str(<<"0", ".", "5">>),
               Str(<<"5", "0">>), Str(<<"5", "5">>)}}

Suites == {"parse", "ele", "dist", "roundtrip", "name", "range", "server"}

ElemsOf(su) ==
    CASE su = "parse" -> ParseElems
      [] su = "ele" -> EleElems
      [] su = "dist" -> DistElems
      [] su = "roundtrip" -> RoundTripElems
      [] su = "name" -> NameElems
      [] su = "range" -> RangeElems
      [] su = "server" -> ServerElems

MaxLenOf(su) ==
    CASE su = "parse" -> MaxElems
      [] su = "ele" -> MaxElePoints
      [] su = "dist" -> MaxDistPoints
      [] su = "roundtrip" -> MaxRoundTripPoints
      [] su = "name" -> MaxNamePoints
      [] su = "range" -> MaxRangePoints
      [] su = "server" -> MaxServerPoints

\* The document-level name of the input documents: none, and in suite "name"
\* also an empty and a non-empty one.
DocNamesOf(su) ==
    IF su = "name" THEN {Null, Str(<<>>), Str(<<"N", "&", "a", "m", "p", ";">>)}
    ELSE {Null}

\* The input documents of a suite; only suite "parse" has documents whose tag
\* structure is broken.
Docs(su) ==
    {[syntaxOk |-> ok, name |-> n, elems |-> es] :
        ok \in (IF su = "parse" THEN BOOLEAN ELSE {TRUE}),
        n \in DocNamesOf(su),
        es \in SeqsUpTo(ElemsOf(su), MaxLenOf(su))}

\* Titles given to generateGPX: plain and, in suite "roundtrip", with every
\* markup character, and one that reads like an entity reference.
TitlesOf(su) ==
    IF su = "roundtrip"
    THEN {<<"R">>, <<"R", "&", "\"", "<", "1", ">", "'">>, <<"&", "l", "t", ";">>}
    ELSE {<<"R">>}

\* The instants (ms after the epoch) the system clock may show when generateGPX
\* is called; only suite "dist" has calls at different instants.
ClockOf(su) == IF su = "dist" THEN {0, 1500} ELSE {0}

-----------------------------------------------------------------------------
(* Browser storage, shared by LocalStorage and DataService *)

\* localStorage.getItem(key): null for a key that is not stored.
NoItem == [has |-> FALSE, v |-> <<>>]

\* A stored key; v is the value JSON.parse gives for its text.
Item(v) == [has |-> TRUE, v |-> v]

\* data ? JSON.parse(data) : dflt  (the text of a stored list is never empty)
ItemOr(item, dflt) == IF item.has THEN item.v ELSE dflt

\* The entries of a list.
SeqRange(q) == {q[i] : i \in 1..Len(q)}

\* localStorage.clear(): no key is stored.
EmptyStorage ==
    [routes |-> NoItem, reviews |-> NoItem, favorites |-> NoItem,
     routesCache |-> NoItem, offlineQueue |-> NoItem]

-----------------------------------------------------------------------------
(* DataService *)

MaxCallers == 2

MaxActions == 1

Callers == 1..MaxCallers

NoCall == [name |-> "none", arg |-> <<>>, sent |-> FALSE, ret |-> <<>>]

\* The backend: whether it holds a session for this browser, how often
\* signInAnonymouslySupabase was called since the page was loaded, and the
\* create / update requests it received.
NoBackend == [session |-> FALSE, signIns |-> 0, applied |-> {}]

\* private static initialized = false; isOnline = true; currentUserId = null
FreshService == [initialized |-> FALSE, isOnline |-> TRUE, currentUserId |-> FALSE]

\* An action of the offline queue or a request to the backend; id is its
\* Date.now() timestamp, the count of the actions the page has timed so far.
QueuedAction(type, id) == [type |-> type, id |-> id]

getOfflineQueue(ls) == ItemOr(ls.offlineQueue, <<>>)

getCachedRoutes(ls) == ItemOr(ls.routesCache, <<>>)

cacheRoutes(ls, routes) == [ls EXCEPT !.routesCache = Item(routes)]

queueOfflineAction(ls, action) ==
    [ls EXCEPT !.offlineQueue = Item(Append(getOfflineQueue(ls), action))]

\* processOfflineQueue: the storage it leaves, given this.isOnline and
\* isSupabaseConfigured().  It makes no request to the backend.
processOfflineQueue(ls, online, configured) ==
    IF ~online \/ ~configured THEN ls
    ELSE IF Len(getOfflineQueue(ls)) = 0 THEN ls
    ELSE [ls EXCEPT !.offlineQueue = NoItem]

\* The application before anything ran, as the parser suites keep it.
AppIdle ==
    /\ env = [configured |-> FALSE, onLine |-> TRUE, now |-> 0]
    /\ localStorage = EmptyStorage
    /\ backend = NoBackend
    /\ ds = FreshService
    /\ pc = [c \in Callers |-> "idle"]
    /\ listeners = 0
    /\ call = NoCall
    /\ everQueued = {}

-----------------------------------------------------------------------------
(* State machine: a caller of the engine *)

NoResult == [status |-> "none", error |-> "", data |-> NoData]

NoGpx == [syntaxOk |-> TRUE, name |-> Null, time |-> Null, elems |-> <<>>]

NoOut == [title |-> <<>>, gpx |-> NoGpx, reparsed |-> NoResult,
          coords |-> <<>>, elevations |-> <<>>]

InitSuite(su) ==
    /\ suite = su
    /\ doc \in Docs(su)
    /\ result = NoResult
    /\ prev = NoResult
    /\ op = "init"
    /\ out = NoOut
    /\ AppIdle

\* result = GPXParser.parse(doc)
Parse ==
    /\ op = "init"
    /\ result' = parse(doc)
    /\ op' = "parse"
    /\ UNCHANGED <<appVars, suite, doc, prev, out>>

\* The caller parses the document with one more point element at its end.
AppendPoint ==
    /\ op = "parse"
    /\ Len(doc.elems) < MaxLenOf(suite)
    /\ \E q \in ElemsOf(suite) :
        /\ doc' = [doc EXCEPT !.elems = Append(doc.elems, q)]
        /\ result' = parse(doc')
    /\ prev' = result
    /\ op' = "append"
    /\ UNCHANGED <<appVars, suite, out>>

\* The calls that take the parsed track as their argument.
TrackOps == {"geojson", "elevation", "generate"}

\* The caller holds a parsed track and may pass it to any of the track
\* operations, any number of times.
HoldsTrack ==
    /\ op \in ({"parse", "append"} \cup TrackOps)
    /\ result.status = "ok"

\* GetElevationData as if the map callback wrote the fallback into the point
\* (p.ele = p.ele || 0).
GetElevationData_InPlace ==
    /\ HoldsTrack
    /\ out' = [NoOut EXCEPT !.elevations = getElevationData(result.data)]
    /\ result' = [result EXCEPT !.data.points =
                    [i \in 1..Len(result.data.points) |->
                        [result.data.points[i] EXCEPT !.ele = OrZero(@)]]]
    /\ op' = "elevation"
    /\ UNCHANGED <<appVars, suite, doc, prev>>

\* out.coords = GPXParser.toGeoJSONCoordinates(result)
ToGeoJSONCoordinates ==
    /\ HoldsTrack
    /\ out' = [NoOut EXCEPT !.coords = toGeoJSONCoordinates(result.data)]
    /\ op' = "geojson"
    /\ UNCHANGED <<appVars, suite, doc, result, prev>>

\* out.elevations = GPXParser.getElevationData(result)
GetElevationData ==
    /\ HoldsTrack
    /\ out' = [NoOut EXCEPT !.elevations = getElevationData(result.data)]
    /\ op' = "elevation"
    /\ UNCHANGED <<appVars, suite, doc, result, prev>>

\* out.gpx = GPXParser.generateGPX(result, title), called at instant now
GenerateGPX ==
    /\ HoldsTrack
    /\ \E title \in TitlesOf(suite), now \in ClockOf(suite) :
        out' = [NoOut EXCEPT !.title = title,
                             !.gpx = generateGPX(result.data, title, now)]
    /\ op' = "generate"
    /\ UNCHANGED <<appVars, suite, doc, result, prev>>

\* out.reparsed = GPXParser.parse(out.gpx)
Reparse ==
    /\ op = "generate"
    /\ out' = [out EXCEPT !.reparsed = parse(out.gpx)]
    /\ op' = "reparse"
    /\ UNCHANGED <<appVars, suite, doc, result, prev>>

Next ==
    \/ Parse
    \/ AppendPoint
    \/ ToGeoJSONCoordinates
    \/ GetElevationData
    \/ GenerateGPX
    \/ Reparse

Spec == InitSuite("parse") /\ [][Next]_vars

SpecEle == InitSuite("ele") /\ [][Next]_vars

SpecDist == InitSuite("dist") /\ [][Next]_vars

SpecRoundTrip == InitSuite("roundtrip") /\ [][Next]_vars

SpecName == InitSuite("name") /\ [][Next]_vars

SpecRange == InitSuite("range") /\ [][Next]_vars

-----------------------------------------------------------------------------
(* State machine: the pages of the application using DataService *)

\* The files given to createRoute: a track of two points, the same with broken
\* markup and a document with a single point.
TwoPoints ==
    <<Elem("trkpt", Str(<<"0">>), Str(<<"0">>), Null, Null),
      Elem("trkpt", Str(LatA), Str(<<"0">>), Null, Null)>>

ServiceDocs ==
    {[syntaxOk |-> TRUE, name |-> Null, elems |-> TwoPoints],
     [syntaxOk |-> FALSE, name |-> Null, elems |-> TwoPoints],
     [syntaxOk |-> TRUE, name |-> Null, elems |-> SubSeq(TwoPoints, 1, 1)]}

\* Math.round(x * 10) / 10
Round1(x) == IF x.k = "num"
             THEN Num(((2 * x.v * 10 + Scale) \div (2 * Scale)) * (Scale \div 10))
             ELSE NaN

\* The Route createRoute builds from the parsed track; id is Date.now().
LocalRoute(id, gpxData) ==
    LET coordinates == toGeoJSONCoordinates(gpxData)
    IN  [_id |-> id,
         distanceKm |-> Round1(gpxData.distance),
         elevationGainM |-> gpxData.elevationGain,
         estimatedTimeMin |-> gpxData.estimatedTime,
         startPoint |-> [lat |-> coordinates[1][2], lon |-> coordinates[1][1]],
         endPoint |-> [lat |-> coordinates[Len(coordinates)][2],
                       lon |-> coordinates[Len(coordinates)][1]],
         elevationData |-> getElevationData(gpxData)]

Failure(error) == [success |-> FALSE, error |-> error]

Success == [success |-> TRUE, error |-> ""]

\* What a request to the backend may answer: it fails without connectivity.
BackendAnswers == IF env.onLine THEN BOOLEAN ELSE {FALSE}

InitService ==
    /\ suite = "service"
    /\ doc = NoGpx
    /\ result = NoResult
    /\ prev = NoResult
    /\ op = "init"
    /\ out = NoOut
    /\ env \in {[configured |-> c, onLine |-> o, now |-> 0] : c, o \in BOOLEAN}
    /\ localStorage = EmptyStorage
    /\ backend = NoBackend
    /\ ds = FreshService
    /\ pc = [c \in Callers |-> "idle"]
    /\ listeners = 0
    /\ call = NoCall
    /\ everQueued = {}

\* The offline branch shared by the three writing operations: the action is put
\* on the queue (and recorded in everQueued).
Queue(ls, type) ==
    /\ localStorage' = queueOfflineAction(ls, QueuedAction(type, env.now + 1))
    /\ everQueued' = everQueued \cup {QueuedAction(type, env.now + 1)}
    /\ backend' = backend

\* A request of the given type reaches the backend if accepted.
Send(type, accepted) ==
    /\ backend' = IF accepted
                  THEN [backend EXCEPT !.applied = @ \cup {QueuedAction(type, env.now + 1)}]
                  ELSE backend
    /\ everQueued' = everQueued

\* What the last call left behind: its name, its argument, whether it made a
\* request to the backend, and the value it returned or resolved to.
Returned(name, arg, sent, ret) == [name |-> name, arg |-> arg, sent |-> sent, ret |-> ret]

\* The answer of a writing operation whose request the backend took or refused.
Answer(accepted) == IF accepted THEN Success ELSE Failure("backend")

\* A refused request leaves no record, so it takes no timestamp either.
Tick(taken) == [env EXCEPT !.now = IF taken THEN @ + 1 ELSE @]

\* createRoute with the request or the offline bookkeeping done before the file
\* is parsed.
CreateRoute_WriteBeforeParse ==
    /\ env.now < MaxActions
    /\ \E gpxFile \in ServiceDocs, accepted \in BackendAnswers :
        LET gpxData == parse(gpxFile)
            online == env.configured /\ ds.isOnline
        IN  /\ IF online
               THEN /\ Send("createRoute", accepted)
                    /\ localStorage' = localStorage
               ELSE Queue(localStorage, "createRoute")
            /\ call' = Returned("createRoute", gpxFile, online,
                                IF gpxData.status = "error"
                                THEN Failure(gpxData.error)
                                ELSE IF online THEN Answer(accepted) ELSE Success)
            /\ env' = Tick(~online \/ accepted)
    /\ UNCHANGED <<parserVars, ds, pc, listeners>>

\* DataService.createRoute(params) with params.gpxFile = gpxFile
CreateRoute ==
    /\ \E gpxFile \in ServiceDocs :
        LET gpxData == parse(gpxFile)
        IN  IF gpxData.status = "error"
            THEN /\ call' = Returned("createRoute", gpxFile, FALSE,
                                     Failure(gpxData.error))
                 /\ UNCHANGED <<env, localStorage, backend, everQueued>>
            ELSE IF env.now >= MaxActions
            THEN FALSE
            ELSE IF env.configured /\ ds.isOnline
            THEN \E accepted \in BackendAnswers :
                 /\ Send("createRoute", accepted)
                 /\ localStorage' = IF accepted
                                    THEN [localStorage EXCEPT !.routesCache = NoItem]
                                    ELSE localStorage
                 /\ call' = Returned("createRoute", gpxFile, TRUE, Answer(accepted))
                 /\ env' = Tick(accepted)
            ELSE /\ Queue(cacheRoutes(localStorage,
                                      <<LocalRoute(env.now + 1, gpxData.data)>>
                                          \o getCachedRoutes(localStorage)),
                          "createRoute")
                 /\ call' = Returned("createRoute", gpxFile, FALSE, Success)
                 /\ env' = Tick(TRUE)
    /\ UNCHANGED <<parserVars, ds, pc, listeners>>

\* DataService.addReview(review)
AddReview ==
    /\ env.now < MaxActions
    /\ \E accepted \in BackendAnswers :
        IF env.configured /\ ds.isOnline
        THEN /\ Send("createReview", accepted)
             /\ localStorage' = localStorage
             /\ call' = Returned("addReview", <<>>, TRUE, Answer(accepted))
             /\ env' = Tick(accepted)
        ELSE /\ Queue(localStorage, "createReview")
             /\ call' = Returned("addReview", <<>>, FALSE, Success)
             /\ env' = Tick(TRUE)
    /\ UNCHANGED <<parserVars, ds, pc, listeners>>

\* DataService.updateUserProfile(params)
UpdateUserProfile ==
    /\ env.now < MaxActions
    /\ \E accepted \in BackendAnswers :
        IF env.configured /\ ds.isOnline /\ ds.currentUserId
        THEN /\ Send("updateUser", accepted)
             /\ localStorage' = localStorage
             /\ call' = Returned("updateUserProfile", <<>>, TRUE, Answer(accepted))
             /\ env' = Tick(accepted)
        ELSE /\ Queue(localStorage, "updateUser")
             /\ call' = Returned("updateUserProfile", <<>>, FALSE, Success)
             /\ env' = Tick(TRUE)
    /\ UNCHANGED <<parserVars, ds, pc, listeners>>

\* A call of DataService.initialize starts (the calls are alike, so they are
\* numbered in the order they start): it returns at once when initialized is
\* set, awaits getSupabaseSession() when the backend is configured, and otherwise
\* runs processOfflineQueue and awaits it.
InitializeCall(c) ==
    /\ pc[c] = "idle"
    /\ \A d \in Callers : d < c => pc[d] # "idle"
    /\ IF ds.initialized
       THEN /\ pc' = [pc EXCEPT ![c] = "done"]
            /\ localStorage' = localStorage
       ELSE IF env.configured
       THEN /\ pc' = [pc EXCEPT ![c] = "session"]
            /\ localStorage' = localStorage
       ELSE /\ pc' = [pc EXCEPT ![c] = "processed"]
            /\ localStorage' = processOfflineQueue(localStorage, ds.isOnline,
                                                   env.configured)
    /\ UNCHANGED <<parserVars, env, backend, ds, listeners, call, everQueued>>

\* getSupabaseSession() settles: with a session the user id is kept and the queue
\* processed; without one signInAnonymouslySupabase() is called and awaited; a
\* rejection is caught and the queue processed.
InitializeSession(c) ==
    /\ pc[c] = "session"
    /\ \E resolved \in BOOLEAN :
        IF resolved /\ backend.session
        THEN /\ ds' = [ds EXCEPT !.currentUserId = TRUE]
             /\ backend' = backend
             /\ localStorage' = processOfflineQueue(localStorage, ds.isOnline,
                                                    env.configured)
             /\ pc' = [pc EXCEPT ![c] = "processed"]
        ELSE IF resolved
        THEN /\ backend' = [backend EXCEPT !.signIns = @ + 1]
             /\ pc' = [pc EXCEPT ![c] = "signin"]
             /\ UNCHANGED <<ds, localStorage>>
        ELSE /\ localStorage' = processOfflineQueue(localStorage, ds.isOnline,
                                                    env.configured)
             /\ pc' = [pc EXCEPT ![c] = "processed"]
             /\ UNCHANGED <<ds, backend>>
    /\ UNCHANGED <<parserVars, env, listeners, call, everQueued>>

\* signInAnonymouslySupabase() settles: on success the user id is kept and
\* upsertUserInSupabase awaited; otherwise the queue is processed.
InitializeSignIn(c) ==
    /\ pc[c] = "signin"
    /\ \E success \in BackendAnswers :
        IF success
        THEN /\ ds' = [ds EXCEPT !.currentUserId = TRUE]
             /\ backend' = [backend EXCEPT !.session = TRUE]
             /\ pc' = [pc EXCEPT ![c] = "upsert"]
             /\ localStorage' = localStorage
        ELSE /\ localStorage' = processOfflineQueue(localStorage, ds.isOnline,
                                                    env.configured)
             /\ pc' = [pc EXCEPT ![c] = "processed"]
             /\ UNCHANGED <<ds, backend>>
    /\ UNCHANGED <<parserVars, env, listeners, call, everQueued>>

\* upsertUserInSupabase settles (or rejects, which is caught): processOfflineQueue
\* runs and is awaited.
InitializeUpsert(c) ==
    /\ pc[c] = "upsert"
    /\ localStorage' = processOfflineQueue(localStorage, ds.isOnline, env.configured)
    /\ pc' = [pc EXCEPT ![c] = "processed"]
    /\ UNCHANGED <<parserVars, env, backend, ds, listeners, call, everQueued>>

\* After the await of processOfflineQueue: initialized is set, the online and
\* offline listeners are registered and isOnline takes navigator.onLine.
InitializeFinish(c) ==
    /\ pc[c] = "processed"
    /\ ds' = [ds EXCEPT !.initialized = TRUE, !.isOnline = env.onLine]
    /\ listeners' = listeners + 1
    /\ pc' = [pc EXCEPT ![c] = "done"]
    /\ UNCHANGED <<parserVars, env, localStorage, backend, call, everQueued>>

\* Connectivity returns: the browser fires 'online' and each registered listener
\* sets isOnline and calls processOfflineQueue.
GoOnline ==
    /\ ~env.onLine
    /\ env' = [env EXCEPT !.onLine = TRUE]
    /\ IF listeners > 0
       THEN /\ ds' = [ds EXCEPT !.isOnline = TRUE]
            /\ localStorage' = processOfflineQueue(localStorage, TRUE, env.configured)
       ELSE UNCHANGED <<ds, localStorage>>
    /\ UNCHANGED <<parserVars, backend, pc, listeners, call, everQueued>>

\* Connectivity is lost: the browser fires 'offline'.
GoOffline ==
    /\ env.onLine
    /\ env' = [env EXCEPT !.onLine = FALSE]
    /\ ds' = IF listeners > 0 THEN [ds EXCEPT !.isOnline = FALSE] ELSE ds
    /\ UNCHANGED <<parserVars, localStorage, backend, pc, listeners, call, everQueued>>

\* The page is loaded again: the static fields start afresh, running calls and
\* listeners are gone; localStorage and the backend's session stay.
Reload ==
    /\ ds' = FreshService
    /\ pc' = [c \in Callers |-> "idle"]
    /\ listeners' = 0
    /\ backend' = [backend EXCEPT !.signIns = 0]
    /\ call' = NoCall
    /\ UNCHANGED <<parserVars, env, localStorage, everQueued>>

NextService ==
    \/ CreateRoute
    \/ AddReview
    \/ UpdateUserProfile
    \/ \E c \in Callers : InitializeCall(c)
    \/ \E c \in Callers : InitializeSession(c)
    \/ \E c \in Callers : InitializeSignIn(c)
    \/ \E c \in Callers : InitializeUpsert(c)
    \/ \E c \in Callers : InitializeFinish(c)
    \/ GoOnline
    \/ GoOffline
    \/ Reload

SpecService == InitService /\ [][NextService]_vars

-----------------------------------------------------------------------------
(* LocalStorage *)

\* A stored route: its _id and, for the rest of its fields, its title.
Route(id, title) == [_id |-> id, title |-> title]

\* A stored review: its _id and the route it is about.
Review(id, routeId) == [_id |-> id, routeId |-> routeId]

getInitialRoutes ==
    <<Route("1", "seed"), Route("2", "seed"), Route("3", "seed"),
      Route("4", "seed"), Route("5", "seed"), Route("6", "seed")>>

initialReviews == <<Review("r1", "1"), Review("r2", "1"), Review("r3", "3")>>

getRoutes(ls) == ItemOr(ls.routes, getInitialRoutes)

\* routes.findIndex(r => r._id === id), counted from 1; 0 when there is none
findIndex(routes, id) ==
    IF \E i \in 1..Len(routes) : routes[i]._id = id
    THEN CHOOSE i \in 1..Len(routes) :
            /\ routes[i]._id = id
            /\ \A j \in 1..(i - 1) : routes[j]._id # id
    ELSE 0

\* saveRoute with every route put at the front, stored already or not.
saveRoute_AlwaysUnshift(ls, route) ==
    [ls EXCEPT !.routes = Item(<<route>> \o getRoutes(ls))]

saveRoute(ls, route) ==
    LET routes == getRoutes(ls)
        index == findIndex(routes, route._id)
    IN  [ls EXCEPT !.routes = Item(IF index >= 1
                                   THEN [routes EXCEPT ![index] = route]
                                   ELSE <<route>> \o routes)]

\* routes.find(r => r._id === id) || null
getRoute(ls, id) ==
    LET routes == getRoutes(ls)
        index == findIndex(routes, id)
    IN  IF index >= 1 THEN Item(routes[index]) ELSE NoItem

deleteRoute(ls, id) ==
    LET keep(r) == r._id # id
    IN  [ls EXCEPT !.routes = Item(SelectSeq(getRoutes(ls), keep))]

getReviews(ls, routeId) ==
    LET about(r) == r.routeId = routeId
    IN  SelectSeq(ItemOr(ls.reviews, <<>>), about)

addReview(ls, review) ==
    [ls EXCEPT !.reviews = Item(<<review>> \o ItemOr(ls.reviews, <<>>))]

getFavorites(ls) == ItemOr(ls.favorites, <<>>)

\* favorites.indexOf(routeId), counted from 1; 0 when it is not in the list
indexOf(favorites, routeId) ==
    IF \E i \in 1..Len(favorites) : favorites[i] = routeId
    THEN CHOOSE i \in 1..Len(favorites) :
            /\ favorites[i] = routeId
            /\ \A j \in 1..(i - 1) : favorites[j] # routeId
    ELSE 0

\* favorites.splice(index, 1)
Splice1(favorites, index) ==
    SubSeq(favorites, 1, index - 1) \o SubSeq(favorites, index + 1, Len(favorites))

\* toggleFavorite with the list not written back after the removal.
toggleFavorite_RemovalNotStored(ls, routeId) ==
    LET favorites == getFavorites(ls)
        index == indexOf(favorites, routeId)
    IN  IF index >= 1
        THEN [ls |-> ls, ret |-> FALSE]
        ELSE [ls |-> [ls EXCEPT !.favorites = Item(Append(favorites, routeId))],
              ret |-> TRUE]

\* toggleFavorite(routeId): the storage it leaves and the value it returns
toggleFavorite(ls, routeId) ==
    LET favorites == getFavorites(ls)
        index == indexOf(favorites, routeId)
    IN  IF index >= 1
        THEN [ls |-> [ls EXCEPT !.favorites = Item(Splice1(favorites, index))],
              ret |-> FALSE]
        ELSE [ls |-> [ls EXCEPT !.favorites = Item(Append(favorites, routeId))],
              ret |-> TRUE]

\* this.getFavorites().includes(routeId)
isFavorite(ls, routeId) == routeId \in SeqRange(getFavorites(ls))

\* initialize with the sample data written whatever is stored.
initialize_SeedAlways(ls) ==
    [ls EXCEPT !.routes = Item(getInitialRoutes), !.reviews = Item(initialReviews)]

initialize(ls) ==
    LET seeded == IF ~ls.routes.has
                  THEN [ls EXCEPT !.routes = Item(getInitialRoutes)]
                  ELSE ls
    IN  IF ~seeded.reviews.has
        THEN [seeded EXCEPT !.reviews = Item(initialReviews)]
        ELSE seeded

-----------------------------------------------------------------------------
(* State machine: the pages of the application using LocalStorage *)

MaxReviews == 1

\* The routes the pages save: a sample route edited and a new one.
SavedRoutes == {Route(id, title) : id \in {"2", "t"}, title \in {"a", "b"}}

\* The ids the pages look up, delete and mark as favorites.
RouteIds == {"2", "t"}

\* The module is loaded: LocalStorage.initialize() has run on the empty storage.
InitStorage ==
    /\ suite = "storage"
    /\ doc = NoGpx
    /\ result = NoResult
    /\ prev = NoResult
    /\ op = "init"
    /\ out = NoOut
    /\ env = [configured |-> FALSE, onLine |-> TRUE, now |-> 0]
    /\ localStorage = initialize(EmptyStorage)
    /\ backend = NoBackend
    /\ ds = FreshService
    /\ pc = [c \in Callers |-> "idle"]
    /\ listeners = 0
    /\ call = NoCall
    /\ everQueued = {}

StorageRest == <<parserVars, env, backend, ds, pc, listeners, everQueued>>

\* LocalStorage.saveRoute(route)
SaveRoute ==
    \E route \in SavedRoutes :
        /\ localStorage' = saveRoute(localStorage, route)
        /\ call' = Returned("saveRoute", route, FALSE, <<>>)
        /\ UNCHANGED StorageRest

\* LocalStorage.deleteRoute(id)
DeleteRoute ==
    \E id \in RouteIds :
        /\ localStorage' = deleteRoute(localStorage, id)
        /\ call' = Returned("deleteRoute", id, FALSE, <<>>)
        /\ UNCHANGED StorageRest

\* LocalStorage.addReview(review)
LocalAddReview ==
    /\ Len(ItemOr(localStorage.reviews, <<>>)) < Len(initialReviews) + MaxReviews
    /\ localStorage' = addReview(localStorage, Review("n", "2"))
    /\ call' = Returned("addReview", Review("n", "2"), FALSE, <<>>)
    /\ UNCHANGED StorageRest

\* LocalStorage.toggleFavorite(routeId)
ToggleFavorite ==
    \E routeId \in RouteIds :
        LET toggled == toggleFavorite(localStorage, routeId)
        IN  /\ localStorage' = toggled.ls
            /\ call' = Returned("toggleFavorite", routeId, FALSE, toggled.ret)
            /\ UNCHANGED StorageRest

\* LocalStorage.initialize()
LocalInitialize ==
    /\ localStorage' = initialize(localStorage)
    /\ call' = Returned("initialize", <<>>, FALSE, <<>>)
    /\ UNCHANGED StorageRest

NextStorage ==
    \/ SaveRoute
    \/ DeleteRoute
    \/ LocalAddReview
    \/ ToggleFavorite
    \/ LocalInitialize

SpecStorage == InitStorage /\ [][NextStorage]_vars

-----------------------------------------------------------------------------
(* The cloud function route-create: parseGPX *)

\* x > y (false when either is NaN)
jsGreater(x, y) == x.k = "num" /\ y.k = "num" /\ x.v > y.v

\* The point parseGPX builds from a trkpt: an attribute that is not there reads
\* as NaN, an ele child that is absent or empty as 0.
ServerPoint(pt) ==
    [lat |-> IF pt.lat.has THEN parseFloat(pt.lat.s) ELSE NaN,
     lon |-> IF pt.lon.has THEN parseFloat(pt.lon.s) ELSE NaN,
     ele |-> IF Truthy(pt.ele) THEN parseFloat(pt.ele.s) ELSE Num(0)]

\* The distance between two points, NaN when a coordinate is.
ServerDistance(prevPt, curr) ==
    IF isNaN(prevPt.lat) \/ isNaN(prevPt.lon) \/ isNaN(curr.lat) \/ isNaN(curr.lon)
    THEN NaN
    ELSE calculateDistance(prevPt.lat, prevPt.lon, curr.lat, curr.lon)

\* ServerStep with every change of elevation counted as gain.
ServerStep_AnyChange(acc, prevPt, curr) ==
    [distance |-> jsAdd(acc.distance, ServerDistance(prevPt, curr)),
     elevationGain |-> jsAdd(acc.elevationGain, jsAbs(jsSub(curr.ele, prevPt.ele)))]

\* One iteration of the loop of parseGPX: acc holds distance and elevationGain.
ServerStep(acc, prevPt, curr) ==
    [distance |-> jsAdd(acc.distance, ServerDistance(prevPt, curr)),
     elevationGain |-> IF jsGreater(curr.ele, prevPt.ele)
                       THEN jsAdd(acc.elevationGain, jsSub(curr.ele, prevPt.ele))
                       ELSE acc.elevationGain]

\* The loop of parseGPX up to index n (1-based: points[2..n]).
RECURSIVE ServerLoop(_, _)
ServerLoop(points, n) ==
    IF n <= 1
    THEN [distance |-> Num(0), elevationGain |-> Num(0)]
    ELSE ServerStep(ServerLoop(points, n - 1), points[n - 1], points[n])

serverSpeed == 40

\* Math.round((distance / 40) * 60)
ServerTime(distance) ==
    IF distance.k = "num"
    THEN Num(((2 * distance.v * 60 + serverSpeed * Scale)
                 \div (2 * serverSpeed * Scale)) * Scale)
    ELSE NaN

Reject(e) == [status |-> "error", error |-> e, data |-> <<>>]

Resolve(d) == [status |-> "ok", error |-> "", data |-> d]

\* parseGPX(gpxContent): xml2js rejects a document that is not well-formed;
\* reading trk.trkseg.trkpt of a document without trkpt, or the attributes of a
\* trkpt that has none, is a TypeError, which rejects too.
parseGPX(gpxContent) ==
    IF ~WellFormed(gpxContent) THEN Reject("SAXError")
    ELSE
        LET trkpts == getElementsByTagName(parseFromString(gpxContent), "trkpt")
            points == [i \in 1..Len(trkpts) |-> ServerPoint(trkpts[i])]
            acc == ServerLoop(points, Len(points))
        IN  IF Len(trkpts) = 0 THEN Reject("TypeError")
            ELSE IF \E i \in 1..Len(trkpts) : ~trkpts[i].lat.has /\ ~trkpts[i].lon.has
            THEN Reject("TypeError")
            ELSE Resolve([points |-> points,
                          distanceKm |-> Round1(acc.distance),
                          elevationGainM |-> jsRound(acc.elevationGain),
                          estimatedTimeMin |-> ServerTime(acc.distance),
                          startPoint |-> [lat |-> points[1].lat, lon |-> points[1].lon],
                          endPoint |-> [lat |-> points[Len(points)].lat,
                                        lon |-> points[Len(points)].lon],
                          geoJSON |-> [i \in 1..Len(points) |->
                                          <<points[i].lon, points[i].lat, points[i].ele>>]])

-----------------------------------------------------------------------------
(* State machine: one document given to the client and to the cloud function *)

\* The cloud function parses the document.
ParseGPX ==
    /\ call.name = "none"
    /\ call' = Returned("parseGPX", doc, FALSE, parseGPX(doc))
    /\ UNCHANGED <<parserVars, env, localStorage, backend, ds, pc, listeners, everQueued>>

NextServer ==
    \/ Parse
    \/ ParseGPX

SpecServer == InitSuite("server") /\ [][NextServer]_vars

-----------------------------------------------------------------------------
(* Notions the claims are stated in *)

\* result holds GPXParser.parse(doc).
Parsed == op # "init"

HasTag(d, tag) == \E i \in 1..Len(d.elems) : d.elems[i].tag = tag

\* The elements of document d with the given tag, in document order, as the DOM
\* presents them.
ElemsWithTag(d, tag) ==
    LET IsTag(e) == e.tag = tag
        es == SelectSeq(d.elems, IsTag)
    IN  [i \in 1..Len(es) |-> DecodeElem(es[i])]

\* The number of trkpt, rtept and wpt elements of d.
PointElemCount(d) == Cardinality({i \in 1..Len(d.elems) : d.elems[i].tag \in Tags})

\* The tier the fallback rule selects.
TierOf(d) ==
    IF HasTag(d, "trkpt") THEN "trkpt"
    ELSE IF HasTag(d, "rtept") THEN "rtept"
    ELSE "wpt"

TierElems(d) == ElemsWithTag(d, TierOf(d))

\* An attribute that is present and whose text reads as a number.
NumericAttr(a) == a.has /\ ~isNaN(parseFloat(a.s))

AttrValid(e) == NumericAttr(e.lat) /\ NumericAttr(e.lon)

\* The point of an attribute-valid element.
PointOfValid(e) ==
    TrackPoint(parseFloat(e.lat.s), parseFloat(e.lon.s),
               IF Truthy(e.ele) THEN parseFloat(e.ele.s) ELSE undefined,
               IF Truthy(e.time) THEN e.time ELSE Null)

\* The points of the attribute-valid elements of es, in order.
ValidPoints(es) ==
    LET vs == SelectSeq(es, AttrValid)
    IN  [i \in 1..Len(vs) |-> PointOfValid(vs[i])]

-----------------------------------------------------------------------------
(* C1 *)

\* C1 (as claimed): parse returns a GPXData or throws exactly one error, decided
\* in this order: not well-formed -> MalformedDocument; well-formed without any
\* trkpt, rtept or wpt element -> NoTrackData; point elements but fewer than 2
\* points left after coordinate filtering -> InsufficientPoints; otherwise a
\* GPXData, and every returned track has at least 2 points.
C1_ErrorOrder ==
    Parsed =>
        LET wf == WellFormed(doc)
            n == PointElemCount(doc)
            left == Len(ExtractPoints(TierElems(doc), 1))
        IN  /\ ~wf => result = Throw("MalformedDocument")
            /\ wf /\ n = 0 => result = Throw("NoTrackData")
            /\ wf /\ n > 0 /\ left < 2 => result = Throw("InsufficientPoints")
            /\ wf /\ n > 0 /\ left >= 2 => result.status = "ok"
            /\ result.status = "ok" => Len(result.data.points) >= 2

-----------------------------------------------------------------------------
(* C2 *)

\* C2: the returned points are those of the elements of exactly one tier, the
\* first of trkpt, rtept, wpt that has an element; no element of a lower tier
\* adds a point.
C2_TierFallback ==
    Parsed /\ result.status = "ok" =>
        /\ HasTag(doc, "trkpt") =>
            result.data.points = ExtractPoints(ElemsWithTag(doc, "trkpt"), 1)
        /\ ~HasTag(doc, "trkpt") /\ HasTag(doc, "rtept") =>
            result.data.points = ExtractPoints(ElemsWithTag(doc, "rtept"), 1)
        /\ ~HasTag(doc, "trkpt") /\ ~HasTag(doc, "rtept") =>
            result.data.points = ExtractPoints(ElemsWithTag(doc, "wpt"), 1)

\* A track parsed from rtept elements of a document that also holds a wpt
\* element with numeric coordinates.
C2_Witness ==
    /\ Parsed /\ result.status = "ok"
    /\ ~HasTag(doc, "trkpt") /\ HasTag(doc, "rtept")
    /\ \E i \in 1..Len(doc.elems) :
        doc.elems[i].tag = "wpt" /\ AttrValid(doc.elems[i])
    /\ Len(result.data.points) = Len(ElemsWithTag(doc, "rtept"))

-----------------------------------------------------------------------------
(* C3 *)

\* Every point element of d carries both attributes.
AllAttrsPresent(d) ==
    \A i \in 1..Len(d.elems) :
        d.elems[i].tag \in Tags => d.elems[i].lat.has /\ d.elems[i].lon.has

\* C3 (as claimed): the returned points are exactly the attribute-valid elements
\* of the selected tier, in document order; an element with a non-numeric lat or
\* lon adds no point.  Stated for documents whose point elements all carry both
\* attributes, so that absent attributes play no part.
C3_ValidElementsOnly ==
    Parsed /\ result.status = "ok" /\ AllAttrsPresent(doc) =>
        result.data.points = ValidPoints(TierElems(doc))

-----------------------------------------------------------------------------
(* C4 *)

\* C4 (as claimed): an element whose lat or lon is absent or does not read as a
\* number adds no point (every returned coordinate pair is that of an
\* attribute-valid element of the tier), and it does not count toward the
\* 2-point minimum.
C4_AbsentSkipped ==
    Parsed =>
        /\ result.status = "ok" =>
            \A i \in 1..Len(result.data.points) :
                \E j \in 1..Len(TierElems(doc)) :
                    /\ AttrValid(TierElems(doc)[j])
                    /\ result.data.points[i].lat = parseFloat(TierElems(doc)[j].lat.s)
                    /\ result.data.points[i].lon = parseFloat(TierElems(doc)[j].lon.s)
        /\ result.error \notin {"MalformedDocument", "NoTrackData"}
           /\ Len(ValidPoints(TierElems(doc))) < 2
             => result = Throw("InsufficientPoints")

-----------------------------------------------------------------------------
(* C5, C6, C7: elevation gain and loss *)

ElesOf(points) == [i \in 1..Len(points) |-> points[i].ele]

Known(e) == e.k = "num"

AllKnown(points) == \A i \in 1..Len(points) : Known(points[i].ele)

\* No elevation is NaN: every one is a number or unknown.
NoNaNEle(points) == \A i \in 1..Len(points) : ~isNaN(points[i].ele)

\* The known elevations of a track, in order.
KnownEles(points) == SelectSeq(ElesOf(points), Known)

\* The sum of the positive deltas es[i] - es[i-1] for i in 2..n.
RECURSIVE PosDeltaSum(_, _)
PosDeltaSum(es, n) ==
    IF n <= 1 THEN 0
    ELSE PosDeltaSum(es, n - 1)
         + (IF es[n].v > es[n - 1].v THEN es[n].v - es[n - 1].v ELSE 0)

\* The sum of the absolute values of the negative deltas for i in 2..n.
RECURSIVE NegDeltaSum(_, _)
NegDeltaSum(es, n) ==
    IF n <= 1 THEN 0
    ELSE NegDeltaSum(es, n - 1)
         + (IF es[n].v < es[n - 1].v THEN es[n - 1].v - es[n].v ELSE 0)

Metres(n) == Num(n * Scale)

Eles50_55_60_58 == <<Metres(50), Metres(55), Metres(60), Metres(58)>>

\* C5: when every point has a known elevation, elevationGain is the rounded sum
\* of the positive deltas of consecutive points and elevationLoss the rounded sum
\* of the absolute negative deltas; elevations 50, 55, 60, 58 give 10 and 2.
C5_GainLossAllKnown ==
    Parsed /\ result.status = "ok" /\ AllKnown(result.data.points) =>
        LET es == ElesOf(result.data.points)
        IN  /\ result.data.elevationGain = jsRound(Num(PosDeltaSum(es, Len(es))))
            /\ result.data.elevationLoss = jsRound(Num(NegDeltaSum(es, Len(es))))
            /\ es = Eles50_55_60_58 =>
                /\ result.data.elevationGain = Metres(10)
                /\ result.data.elevationLoss = Metres(2)

C5_Witness ==
    /\ Parsed /\ result.status = "ok"
    /\ ElesOf(result.data.points) = Eles50_55_60_58
    /\ result.data.elevationGain = Metres(10)

RemoveAt(s, i) == SubSeq(s, 1, i - 1) \o SubSeq(s, i + 1, Len(s))

\* C6: a point with unknown elevation after a point with known elevation is
\* skipped and does not reset the reference: gain and loss are those of the track
\* without that point, and for a track that starts with a known elevation they
\* are the rounded delta sums over the known elevations alone.
C6_UnknownKeepsReference ==
    Parsed /\ result.status = "ok" =>
        LET pts == result.data.points
        IN  /\ \A i \in 2..Len(pts) :
                (pts[i].ele = undefined /\ \E j \in 1..(i - 1) : Known(pts[j].ele)) =>
                    /\ result.data.elevationGain
                         = calculateStats(RemoveAt(pts, i)).elevationGain
                    /\ result.data.elevationLoss
                         = calculateStats(RemoveAt(pts, i)).elevationLoss
            /\ (Known(pts[1].ele) /\ NoNaNEle(pts)) =>
                LET ks == KnownEles(pts)
                IN  /\ result.data.elevationGain = jsRound(Num(PosDeltaSum(ks, Len(ks))))
                    /\ result.data.elevationLoss = jsRound(Num(NegDeltaSum(ks, Len(ks))))

\* A gap of unknown elevation between two different known elevations.
C6_Witness ==
    /\ Parsed /\ result.status = "ok"
    /\ \E i \in 2..(Len(result.data.points) - 1) :
        /\ Known(result.data.points[i - 1].ele)
        /\ result.data.points[i].ele = undefined
        /\ Known(result.data.points[i + 1].ele)
        /\ result.data.points[i + 1].ele.v > result.data.points[i - 1].ele.v
    /\ result.data.elevationGain.v > 0

\* C7 (as claimed): a missing elevation is unknown, not zero: when the first
\* point has no elevation, gain and loss are the rounded delta sums over the
\* points with known elevation, so reaching the first known elevation adds
\* nothing.
C7_MissingIsNotZero ==
    (Parsed /\ result.status = "ok"
        /\ result.data.points[1].ele = undefined /\ NoNaNEle(result.data.points)) =>
        LET ks == KnownEles(result.data.points)
        IN  /\ result.data.elevationGain = jsRound(Num(PosDeltaSum(ks, Len(ks))))
            /\ result.data.elevationLoss = jsRound(Num(NegDeltaSum(ks, Len(ks))))

-----------------------------------------------------------------------------
(* C8: round trip *)

\* C8 (as claimed): for every parsed track and title, parsing the generated
\* document succeeds and gives points with the same lat, lon, ele and time.
C8_RoundTrip ==
    op = "reparse" =>
        /\ out.reparsed.status = "ok"
        /\ Len(out.reparsed.data.points) = Len(result.data.points)
        /\ \A i \in 1..Len(result.data.points) :
            /\ i <= Len(out.reparsed.data.points)
            /\ out.reparsed.data.points[i] = result.data.points[i]

-----------------------------------------------------------------------------
(* C9, C10: distance and estimated time *)

\* The unrounded total distance of a track.
TotalDistance(points) == StatsLoop(points, Len(points)).totalDistance

C10_TimeFromRoundedDistance ==
    (Parsed /\ result.status = "ok") =>
        result.data.estimatedTime
            = jsRound(Num((result.data.distance.v * 60) \div 30))

-----------------------------------------------------------------------------
(* C11: the title in the generated document *)

\* The number of characters of s that are c.
Count(s, c) == Cardinality({i \in 1..Len(s) : s[i] = c})

\* The number of places of s where the text p starts.
Occurrences(s, p) == Cardinality({i \in 1..Len(s) : HasPrefixAt(s, i, p)})

TitleWithSpecials == <<"R", "&", "\"", "<", "1", ">", "'">>

\* R&amp;&quot;&lt;1&gt;&apos;
TitleWithSpecialsEscaped ==
    <<"R">> \o <<"&", "a", "m", "p", ";">> \o <<"&", "q", "u", "o", "t", ";">>
        \o <<"&", "l", "t", ";">> \o <<"1">> \o <<"&", "g", "t", ";">>
        \o <<"&", "a", "p", "o", "s", ";">>

\* C11: the name generateGPX writes is the title with each &, <, >, " and '
\* replaced by its entity exactly once: it holds no raw <, >, " or ', every & of
\* it starts an entity, it is longer than the title by exactly the characters
\* the entities add, and decoding its entities gives the title.
C11_TitleEscaped ==
    op \in {"generate", "reparse"} =>
        LET t == out.title
            n == out.gpx.name.s
        IN  /\ out.gpx.name.has
            /\ \A i \in 1..Len(n) : n[i] \notin {"<", ">", "\"", "'"}
            /\ \A i \in 1..Len(n) : n[i] = "&" => EntitiesAt(n, i) # {}
            /\ \A c \in XmlSpecials \ {"&"} : Occurrences(n, Entity(c)) = Count(t, c)
            /\ Count(n, "&") = Cardinality({i \in 1..Len(t) : t[i] \in XmlSpecials})
            /\ Len(n) = Len(t) + 4 * Count(t, "&") + 3 * Count(t, "<")
                          + 3 * Count(t, ">") + 5 * Count(t, "\"") + 5 * Count(t, "'")
            /\ DecodeText(n, 1) = t
            /\ t = TitleWithSpecials => n = TitleWithSpecialsEscaped

\* A document was generated with a title that holds all five markup characters.
C11_Witness ==
    /\ op = "generate"
    /\ out.title = TitleWithSpecials
    /\ out.gpx.name = Str(TitleWithSpecialsEscaped)

-----------------------------------------------------------------------------
(* C12: the point elements of the generated document *)

\* C12: the generated document holds exactly one trkpt element per point of the
\* track, in point order (the i-th element carries the coordinates of the i-th
\* point), whatever tier the points came from; the element has an ele child
\* exactly when the point has an elevation and a time child exactly when the
\* point has a timestamp.
C12_OneTrkptPerPoint ==
    op \in {"generate", "reparse"} =>
        LET pts == result.data.points
            es == out.gpx.elems
        IN  /\ Len(es) = Len(pts)
            /\ \A i \in 1..Len(pts) :
                /\ i <= Len(es)
                /\ es[i].tag = "trkpt"
                /\ es[i].lat.has /\ parseFloat(es[i].lat.s) = pts[i].lat
                /\ es[i].lon.has /\ parseFloat(es[i].lon.s) = pts[i].lon
                /\ es[i].ele.has <=> pts[i].ele # undefined
                /\ es[i].time.has <=> pts[i].time.has

\* A document was generated from a track of waypoints at two different places,
\* one with elevation and timestamp, the other with neither.
C12_Witness ==
    /\ op = "generate"
    /\ TierOf(doc) = "wpt"
    /\ Len(result.data.points) = 2
    /\ result.data.points[1].lat # result.data.points[2].lat
    /\ result.data.points[1].ele.k = "num" /\ result.data.points[1].time.has
    /\ result.data.points[2].ele = undefined /\ ~result.data.points[2].time.has
    /\ out.gpx.elems[1].tag = "trkpt"
    /\ out.gpx.elems[1].ele.has /\ ~out.gpx.elems[2].ele.has

-----------------------------------------------------------------------------
(* C13, C14: map coordinates and elevation series *)

\* C13: toGeoJSONCoordinates returns as many entries as the track has points,
\* and its i-th entry is the pair (points[i].lon, points[i].lat).
C13_LonLatPairs ==
    op = "geojson" =>
        /\ Len(out.coords) = Len(result.data.points)
        /\ \A i \in 1..Len(result.data.points) :
            /\ i \in DOMAIN out.coords
            /\ Len(out.coords[i]) = 2
            /\ out.coords[i][1] = result.data.points[i].lon
            /\ out.coords[i][2] = result.data.points[i].lat

\* Coordinates were taken of a track with a point whose latitude and longitude
\* differ and a point elsewhere.
C13_Witness ==
    /\ op = "geojson"
    /\ Len(out.coords) >= 2
    /\ result.data.points[1].lat # result.data.points[1].lon
    /\ result.data.points[2] # result.data.points[1]
    /\ out.coords[1] = <<result.data.points[1].lon, result.data.points[1].lat>>

\* C14: getElevationData returns as many entries as the track has points; its
\* i-th entry is points[i].ele when that elevation is known and 0 when it is
\* unknown.
C14_ElevationOrZero ==
    op = "elevation" =>
        /\ Len(out.elevations) = Len(result.data.points)
        /\ \A i \in 1..Len(result.data.points) :
            /\ i \in DOMAIN out.elevations
            /\ Known(result.data.points[i].ele) =>
                out.elevations[i] = result.data.points[i].ele
            /\ result.data.points[i].ele = undefined => out.elevations[i] = Num(0)

\* The elevation series was taken of a track with a known non-zero elevation
\* and an unknown one.
C14_Witness ==
    /\ op = "elevation"
    /\ \E i, j \in 1..Len(result.data.points) :
        /\ Known(result.data.points[i].ele) /\ result.data.points[i].ele.v > 0
        /\ out.elevations[i] = result.data.points[i].ele
        /\ result.data.points[j].ele = undefined
        /\ out.elevations[j] = Num(0)

-----------------------------------------------------------------------------
(* C15: tier-selection transparency *)

\* Document d with every point element encoded as an element of the given tier.
Retag(d, tag) ==
    [d EXCEPT !.elems = [i \in 1..Len(d.elems) |->
        IF d.elems[i].tag \in Tags THEN [d.elems[i] EXCEPT !.tag = tag]
        ELSE d.elems[i]]]

\* Every element of d is a point element of one and the same tier.
SingleTier(d) ==
    /\ Len(d.elems) > 0
    /\ \A i \in 1..Len(d.elems) : d.elems[i].tag = TierOf(d)

\* C15: a document whose points are all of one tier parses to the same outcome
\* (the same record of points, distance, gain, loss and estimated time, or the
\* same error) as the documents that encode the same elements only as trkpt,
\* only as rtept and only as wpt.
C15_TierTransparency ==
    (op \in {"parse", "append"} /\ SingleTier(doc)) =>
        /\ parse(Retag(doc, "trkpt")) = result
        /\ parse(Retag(doc, "rtept")) = result
        /\ parse(Retag(doc, "wpt")) = result

\* A track parsed from waypoints only, with an elevation and a timestamp among
\* them and a positive distance.
C15_Witness ==
    /\ op \in {"parse", "append"} /\ result.status = "ok"
    /\ SingleTier(doc) /\ TierOf(doc) = "wpt"
    /\ \E i \in 1..Len(result.data.points) : Known(result.data.points[i].ele)
    /\ \E i \in 1..Len(result.data.points) : result.data.points[i].time.has
    /\ result.data.distance.v > 0
    /\ parse(Retag(doc, "trkpt")) = result

-----------------------------------------------------------------------------
(* C16: the operations as functions of their arguments *)

\* C16 (as claimed): an operation called twice in a row with equal arguments
\* returns equal results: when the caller repeats toGeoJSONCoordinates,
\* getElevationData or generateGPX on the same track (and the same title), the
\* second result equals the first.
C16_PureOperations ==
    [][/\ (op = "geojson" /\ op' = "geojson" /\ result' = result)
            => out'.coords = out.coords
       /\ (op = "elevation" /\ op' = "elevation" /\ result' = result)
            => out'.elevations = out.elevations
       /\ (op = "generate" /\ op' = "generate" /\ result' = result
                /\ out'.title = out.title)
            => out'.gpx = out.gpx]_vars

-----------------------------------------------------------------------------
(* C17: the track operations leave their argument alone *)

\* C17: after any sequence of toGeoJSONCoordinates, getElevationData and
\* generateGPX calls, the track the caller holds (points and statistics) is
\* what parse returned for the document.
C17_ArgumentUnchanged ==
    op \in (TrackOps \cup {"reparse"}) => result = parse(doc)

\* The elevation series, with a 0 for a point of unknown elevation, was taken of
\* a track that still has that point's elevation unknown.
C17_Witness ==
    /\ op = "elevation"
    /\ \E i \in 1..Len(result.data.points) :
        /\ result.data.points[i].ele = undefined
        /\ out.elevations[i] = Num(0)
    /\ result = parse(doc)

-----------------------------------------------------------------------------
(* C18: the name of the track *)

\* The text of the document-level name element of d when d has one and it is
\* not empty, else nothing.
DocLevelName(d) ==
    IF d.name.has /\ DecodeText(d.name.s, 1) # <<>>
    THEN Str(DecodeText(d.name.s, 1)) ELSE Null

\* C18 (as claimed): the name of a parsed track is the text of the document-level
\* name element when the document has one and it is not empty, and absent
\* otherwise, also when elements of the document have name children; so it is
\* the same whichever tier supplied the points.
C18_DocumentLevelName ==
    (Parsed /\ result.status = "ok") =>
        /\ result.data.name = DocLevelName(doc)
        /\ \A t \in Tags : parse(Retag(doc, t)).data.name = result.data.name

-----------------------------------------------------------------------------
(* C19: elevations of parsed points *)

\* An ele child whose text reads as a number.
NumericEle(e) == Truthy(e.ele) /\ ~isNaN(parseFloat(e.ele.s))

\* C19 (as claimed): a parsed point carries an elevation only when its element
\* has an ele child with numeric text, and then that number; otherwise its
\* elevation is unknown.  So every elevation present in a returned track is a
\* number.  (Stated point by element for documents whose tier elements all give
\* a point.)
C19_ElevationIsNumber ==
    (Parsed /\ result.status = "ok") =>
        LET pts == result.data.points
            es == TierElems(doc)
        IN  /\ \A i \in 1..Len(pts) : pts[i].ele = undefined \/ Known(pts[i].ele)
            /\ Len(es) = Len(pts) =>
                \A i \in 1..Len(pts) :
                    pts[i].ele = IF NumericEle(es[i]) THEN parseFloat(es[i].ele.s)
                                 ELSE undefined

-----------------------------------------------------------------------------
(* C20: coordinate ranges *)

Degrees(n) == Num(n * Scale)

\* C20 (as claimed): every point of a returned track has a latitude within
\* [-90, 90] and a longitude within [-180, 180].
C20_CoordinatesInRange ==
    (Parsed /\ result.status = "ok") =>
        \A i \in 1..Len(result.data.points) :
            /\ result.data.points[i].lat.v >= Degrees(-90).v
            /\ result.data.points[i].lat.v <= Degrees(90).v
            /\ result.data.points[i].lon.v >= Degrees(-180).v
            /\ result.data.points[i].lon.v <= Degrees(180).v

-----------------------------------------------------------------------------
(* C21: queued actions and the backend *)

\* C21 (as claimed): every action DataService queued is eventually applied to the
\* backend.  An action not yet applied has to be waiting in the queue for that,
\* since the queue is all that is kept of it: at every moment each action ever
\* queued is in the offline queue or has been applied to the backend.
C21_QueuedActionsReachBackend ==
    \A a \in everQueued :
        a \in SeqRange(getOfflineQueue(localStorage)) \/ a \in backend.applied

-----------------------------------------------------------------------------
(* C26: a file createRoute cannot parse *)

\* A step of createRoute: the record of the last call is createRoute's and none
\* of the service's fields, calls of initialize or browser events moved.
CreateRouteStep ==
    /\ call'.name = "createRoute"
    /\ ds' = ds /\ pc' = pc /\ listeners' = listeners
    /\ env'.onLine = env.onLine

\* C26: when parse fails on the file given to createRoute, createRoute resolves
\* to {success: false, error: the parse error}, makes no request to the backend
\* and leaves the routes cache and the offline queue as they were.
C26_ParseFailureHasNoEffect ==
    [][(CreateRouteStep /\ parse(call'.arg).status = "error")
          => /\ call'.ret = Failure(parse(call'.arg).error)
             /\ ~call'.sent
             /\ backend' = backend
             /\ localStorage'.routesCache = localStorage.routesCache
             /\ localStorage'.offlineQueue = localStorage.offlineQueue]_vars

\* createRoute has failed on a file with a single point while a route and its
\* queued action from an earlier call are in the storage.
C26_Witness ==
    /\ call.name = "createRoute"
    /\ call.ret = Failure("InsufficientPoints")
    /\ Len(getCachedRoutes(localStorage)) > 0
    /\ Len(getOfflineQueue(localStorage)) > 0

-----------------------------------------------------------------------------
(* C27: the offline queue while the browser is offline *)

\* q is kept in r: r starts with the actions of q, in their order.
KeptIn(q, r) == Len(q) <= Len(r) /\ SubSeq(r, 1, Len(q)) = q

\* C27 (as claimed): no step taken while the browser is offline removes an action
\* from the offline queue, and an action that leaves the queue has been sent to
\* the backend.
C27_QueueKeptWhileOffline ==
    [][/\ ~env'.onLine
            => KeptIn(getOfflineQueue(localStorage), getOfflineQueue(localStorage'))
       /\ \A a \in SeqRange(getOfflineQueue(localStorage)) :
            a \in SeqRange(getOfflineQueue(localStorage')) \/ a \in backend'.applied]_vars

-----------------------------------------------------------------------------
(* C28: initialize runs once *)

\* C28 (as claimed): whatever the interleaving of the calls of initialize on a
\* page, anonymous sign-in is attempted at most once and the online and offline
\* listeners are registered at most once.
C28_InitializedOnce == backend.signIns <= 1 /\ listeners <= 1

-----------------------------------------------------------------------------
(* C22: toggleFavorite *)

\* What a step of toggleFavorite(id) does to the membership of the ids: it
\* returns true and id is then a favorite when it was none, returns false and id
\* is none any more when it was one, and no other id enters or leaves the list.
TogglesMembership ==
    LET id == call'.arg
    IN  /\ call'.ret = ~isFavorite(localStorage, id)
        /\ isFavorite(localStorage', id) = call'.ret
        /\ (indexOf(getFavorites(localStorage'), id) >= 1) = call'.ret
        /\ \A other \in RouteIds \ {id} :
               isFavorite(localStorage', other) = isFavorite(localStorage, other)

\* C22 (as claimed): toggleFavorite(id) flips the membership of id, returns the
\* new state, leaves the other ids alone, and a second toggleFavorite(id) gives
\* back the list of favorites as it was before the first.
C22_ToggleTwiceRestoresList ==
    [][call'.name = "toggleFavorite"
          => /\ TogglesMembership
             /\ getFavorites(toggleFavorite(localStorage', call'.arg).ls)
                    = getFavorites(localStorage)]_vars

\* C22 (amended): toggleFavorite(id) flips the membership of id, returns the new
\* state, leaves the other ids alone, and a second toggleFavorite(id) gives back
\* the same favorites: the list as it was when id was no favorite, and the list
\* with id moved to its end when id was one.
C22_ToggleTwiceRestoresFavorites ==
    [][call'.name = "toggleFavorite"
          => /\ TogglesMembership
             /\ LET favorites == getFavorites(localStorage)
                    index == indexOf(favorites, call'.arg)
                IN  getFavorites(toggleFavorite(localStorage', call'.arg).ls)
                        = IF index >= 1
                          THEN Append(Splice1(favorites, index), call'.arg)
                          ELSE favorites]_vars

\* toggleFavorite has removed an id from a list in which another id stays.
C22_Witness ==
    /\ call.name = "toggleFavorite"
    /\ ~call.ret
    /\ ~isFavorite(localStorage, call.arg)
    /\ Len(getFavorites(localStorage)) = 1

-----------------------------------------------------------------------------
(* C23: saveRoute, getRoute, deleteRoute *)

\* C23: saveRoute(r) with an _id that is not stored puts r first and makes the
\* list one longer; with an _id that is stored it puts r where the entry was and
\* leaves every other entry and the length as they were; getRoute(r._id) then
\* returns r; and after deleteRoute(id), getRoute(id) returns null.
C23_SaveRouteUpserts ==
    [][/\ call'.name = "saveRoute"
            => LET r == call'.arg
                   old == getRoutes(localStorage)
                   new == getRoutes(localStorage')
                   index == findIndex(old, r._id)
               IN  /\ getRoute(localStorage', r._id) = Item(r)
                   /\ IF index = 0
                      THEN new[1] = r /\ Len(new) = Len(old) + 1
                      ELSE /\ Len(new) = Len(old)
                           /\ new[index] = r
                           /\ \A i \in 1..Len(old) : new[i]._id = old[i]._id
                           /\ \A i \in 1..Len(old) : i # index => new[i] = old[i]
       /\ call'.name = "deleteRoute"
            => getRoute(localStorage', call'.arg) = NoItem]_vars

\* A route that was stored behind others has been saved with a new title, while
\* a new route is stored too.
C23_Witness ==
    /\ call.name = "saveRoute"
    /\ findIndex(getRoutes(localStorage), call.arg._id) > 1
    /\ call.arg.title # "seed"
    /\ Len(getRoutes(localStorage)) = Len(getInitialRoutes) + 1

-----------------------------------------------------------------------------
(* C24: initialize on a storage that is in use *)

\* C24: a call of initialize after any saveRoute, deleteRoute and addReview
\* leaves the stored routes and the stored reviews as they are.
C24_InitializeKeepsData ==
    [][call'.name = "initialize"
          => /\ localStorage'.routes = localStorage.routes
             /\ localStorage'.reviews = localStorage.reviews]_vars

\* initialize has run on routes and reviews that are no longer the samples.
C24_Witness ==
    /\ call.name = "initialize"
    /\ getRoutes(localStorage) # getInitialRoutes
    /\ Len(getRoutes(localStorage)) < Len(getInitialRoutes)
    /\ ItemOr(localStorage.reviews, <<>>) # initialReviews

-----------------------------------------------------------------------------
(* C25: the tier is chosen by presence *)

\* The number of attribute-valid elements of d with the given tag.
ValidCount(d, tag) == Len(ValidPoints(ElemsWithTag(d, tag)))

\* C25 (as claimed): for a document that is read as XML, when there is a trkpt
\* element and fewer than 2 trkpt elements have valid coordinates, parse throws
\* InsufficientPoints, whatever rtept and wpt elements there are; likewise when
\* there is no trkpt element, there is an rtept element and fewer than 2 rtept
\* elements have valid coordinates.
C25_TierByPresence ==
    Parsed /\ result.error # "MalformedDocument" =>
        /\ HasTag(doc, "trkpt") /\ ValidCount(doc, "trkpt") < 2
             => result = Throw("InsufficientPoints")
        /\ ~HasTag(doc, "trkpt") /\ HasTag(doc, "rtept")
                /\ ValidCount(doc, "rtept") < 2
             => result = Throw("InsufficientPoints")

-----------------------------------------------------------------------------
(* C29: the client's parse and the cloud function's parseGPX *)

\* Both have parsed the document.
BothParsed == Parsed /\ call.name = "parseGPX"

\* The two results hold the same (lat, lon) pairs in the same order and the same
\* rounded elevation gain.
SameTrack ==
    LET client == result.data.points
        server == call.ret.data.points
    IN  /\ result.status = "ok" /\ call.ret.status = "ok"
        /\ Len(client) = Len(server)
        /\ \A i \in 1..Len(client) :
               client[i].lat = server[i].lat /\ client[i].lon = server[i].lon
        /\ result.data.elevationGain = call.ret.data.elevationGainM

\* d holds at least 2 point elements, all trkpt with numeric lat and lon.
TrackOfTrkpt(d) ==
    /\ Len(d.elems) >= 2
    /\ \A i \in 1..Len(d.elems) : d.elems[i].tag = "trkpt" /\ AttrValid(d.elems[i])

-----------------------------------------------------------------------------
(* C30: gain, loss and the net climb *)

\* An elevation that is a whole number of metres.
IntegerEle(e) == e.k = "num" /\ e.v % Scale = 0

\* C30: when every point of the returned track has an integer elevation, the
\* elevation gain less the elevation loss is the elevation of the last point
\* less that of the first, and neither gain nor loss is negative.
C30_NetClimb ==
    (Parsed /\ result.status = "ok"
        /\ \A i \in 1..Len(result.data.points) : IntegerEle(result.data.points[i].ele))
      => LET pts == result.data.points
             gain == result.data.elevationGain
             loss == result.data.elevationLoss
         IN  /\ gain.k = "num" /\ loss.k = "num"
             /\ gain.v - loss.v = pts[Len(pts)].ele.v - pts[1].ele.v
             /\ gain.v >= 0 /\ loss.v >= 0

\* A track of integer elevations that climbs and descends, ending below its
\* start.
C30_Witness ==
    /\ Parsed /\ result.status = "ok"
    /\ \A i \in 1..Len(result.data.points) : IntegerEle(result.data.points[i].ele)
    /\ Len(result.data.points) >= 3
    /\ result.data.elevationGain.v > 0
    /\ result.data.elevationLoss.v > result.data.elevationGain.v

=============================================================================
